---- MODULE Spec2Model ----
(***************************************************************************)
(* A model of pypqp.py: the Database accessor over an SQLite PQP file, its *)
(* patch_decoys update, and the Protein and Peptide statistics queries.    *)
(*                                                                         *)
(* Strings that the code takes apart (protein_accession) are sequences of  *)
(* one-character strings, so that str.split is computed, not assumed.      *)
(* Tables are functions from the row id to the row's columns; the two      *)
(* mapping tables are sets of <<left id, right id>> rows (a repeated row   *)
(* changes no query of the program: they use IN and COUNT(DISTINCT ...)).  *)
(***************************************************************************)
EXTENDS Integers, Sequences, FiniteSets, TLC

\* ------------------------------------------------------------------ bounds
NumPrecursors == 1
NumPeptides == 1
NumProteins == 2

PrecursorIds == 1..NumPrecursors
PeptideIds == 1..NumPeptides
ProteinIds == 1..NumProteins

\* Values of a decoy column: 0 target, 1 decoy.
DecoyFlags == {0, 1}
\* Values passed as the decoy parameter of the statistics methods.
DecoyArgs == {0, 1, 2}

\* protein_accession values the databases are populated with:
\* "2/A/B", "1/A", "2/B/A" and, without any separator, "A".
Acc2AB == <<"2", "/", "A", "/", "B">>
Acc1A == <<"1", "/", "A">>
Acc2BA == <<"2", "/", "B", "/", "A">>
AccBare == <<"A">>
AccessionPool == {Acc2AB, Acc1A, AccBare}

\* The accession and the modified sequence a row gets when a specification
\* does not vary them.
AccessionOf(i) == CASE i % 3 = 1 -> Acc2AB
                    [] i % 3 = 2 -> Acc1A
                    [] OTHER -> Acc2BA
SequenceOf(i) == IF i % 2 = 1 THEN "PEPTIDEK" ELSE "PEPT(UniMod:21)IDEK"

VARIABLES
  conn,                       \* Database.conn: "none" | "open" | "closed"
  cur,                        \* Database.cur: "none" | "cursor"
  scope,                      \* position relative to `with Database(f) as db:`
  precursor,                  \* table precursor: id -> [decoy]
  peptide,                    \* table peptide: id -> [modified_sequence, decoy]
  protein,                    \* table protein: id -> [protein_accession, decoy]
  precursor_peptide_mapping,  \* rows <<precursor_id, peptide_id>>
  peptide_protein_mapping,    \* rows <<peptide_id, protein_id>>
  protein_obj,                \* a Protein object has been constructed over db
  proteins,                   \* Protein.proteins
  result,                     \* outcome of the last call
  last_patch,                 \* history: the peptide and protein tables before the last
                              \* completed patch_decoys, whether one completed before it,
                              \* whether any completed call changed a flag
  built_from                  \* history: the target rows read when Protein was constructed

vars == <<conn, cur, scope, precursor, peptide, protein, precursor_peptide_mapping,
          peptide_protein_mapping, protein_obj, proteins, result, last_patch, built_from>>

tables == <<precursor, peptide, protein, precursor_peptide_mapping, peptide_protein_mapping>>

\* ------------------------------------------------------------------ helpers
Range(s) == {s[i] : i \in DOMAIN s}

\* The ids of S in ascending order (rowid order, the order SQLite scans a table in).
RECURSIVE Ascending(_)
Ascending(S) ==
  IF S = {} THEN <<>>
  ELSE LET m == CHOOSE x \in S : \A y \in S : x <= y
       IN <<m>> \o Ascending(S \ {m})

\* str.split(sep): the maximal pieces of s between occurrences of sep; never empty.
RECURSIVE Split(_, _)
Split(s, sep) ==
  IF \A i \in DOMAIN s : s[i] # sep THEN <<s>>
  ELSE LET k == CHOOSE i \in DOMAIN s : s[i] = sep /\ \A j \in 1..(i - 1) : s[j] # sep
       IN <<SubSeq(s, 1, k - 1)>> \o Split(SubSeq(s, k + 1, Len(s)), sep)

\* ------------------------------------------------------------------ Database
\* An accessor that fails only once closed.
ConnErrorClosedOnly == IF conn = "closed" THEN "ProgrammingError" ELSE "ok"

\* sqlite3 raises on a closed connection; a None cursor has no attribute execute.
ConnError == IF cur = "none" THEN "AttributeError"
             ELSE IF conn = "closed" THEN "ProgrammingError"
             ELSE "ok"

Outcome(op, args, status, value) == [op |-> op, args |-> args, status |-> status, value |-> value]

\* ------------------------------------------------------------------ patch_decoys
\* UPDATE peptide SET decoy = 1 WHERE id IN (precursor JOIN precursor_peptide_mapping
\* JOIN peptide WHERE pre.decoy = 1)
DecoyPeptideIds(pre, prepep, pep) ==
  {m[2] : m \in {r \in prepep : r[1] \in DOMAIN pre /\ r[2] \in DOMAIN pep /\ pre[r[1]].decoy = 1}}

\* The peptide update without its WHERE pre.decoy = 1.
PatchedPeptideAnyPrecursor(pre, prepep, pep) ==
  [i \in DOMAIN pep |-> IF \E r \in prepep : r[1] \in DOMAIN pre /\ r[2] = i
                        THEN [pep[i] EXCEPT !.decoy = 1] ELSE pep[i]]

PatchedPeptide(pre, prepep, pep) ==
  [i \in DOMAIN pep |-> IF i \in DecoyPeptideIds(pre, prepep, pep)
                        THEN [pep[i] EXCEPT !.decoy = 1] ELSE pep[i]]

\* UPDATE protein SET decoy = 1 WHERE id IN (peptide JOIN peptide_protein_mapping
\* JOIN protein WHERE pep.decoy = 1)
DecoyProteinIds(pep, peppro, pro) ==
  {m[2] : m \in {r \in peppro : r[1] \in DOMAIN pep /\ r[2] \in DOMAIN pro /\ pep[r[1]].decoy = 1}}

PatchedProtein(pep, peppro, pro) ==
  [i \in DOMAIN pro |-> IF i \in DecoyProteinIds(pep, peppro, pro)
                        THEN [pro[i] EXCEPT !.decoy = 1] ELSE pro[i]]

\* A patch whose protein update reads the peptide flags as they were before the
\* peptide update.
PatchStale(pre, prepep, pep, peppro, pro) ==
  <<PatchedPeptide(pre, prepep, pep), PatchedProtein(pep, peppro, pro)>>

\* The two statements in the order the code runs them: the second reads the
\* peptide table the first has written.
Patch(pre, prepep, pep, peppro, pro) ==
  LET pep2 == PatchedPeptide(pre, prepep, pep)
  IN <<pep2, PatchedProtein(pep2, peppro, pro)>>

\* ------------------------------------------------------------------ Protein
\* SELECT protein_accession FROM protein WHERE decoy = ?
ProteinRows(pro, decoy) ==
  LET ids == Ascending({i \in DOMAIN pro : pro[i].decoy = decoy})
  IN [k \in DOMAIN ids |-> <<pro[ids[k]].protein_accession>>]

\* [{row[0].split('/')[1]} for row in rows]: index 1 of a one-piece split is out of range.
SplitRaises(rows) == \E k \in DOMAIN rows : Len(Split(rows[k][1], "/")) < 2

SplitProteinNames(rows) == [k \in DOMAIN rows |-> {Split(rows[k][1], "/")[2]}]

\* tuple(x) of a set x: its members in the set's iteration order.
RECURSIVE TupleOf(_)
TupleOf(S) == IF S = {} THEN <<>>
              ELSE LET x == CHOOSE y \in S : TRUE IN <<x>> \o TupleOf(S \ {x})

UniqueProteinsOf(groups) == {TupleOf(g) : g \in Range(groups)}

ProteinsPerGroupOf(groups) == [k \in DOMAIN groups |-> Cardinality(groups[k])]

\* SELECT protein_accession, COUNT(DISTINCT pep.modified_sequence) FROM protein JOIN
\* peptide_protein_mapping JOIN peptide WHERE pro.decoy = ? GROUP BY protein_accession
\* (the order of the groups is not fixed by the query: a set of rows).
PeptidesPerProteinRows(pep, peppro, pro, decoy) ==
  LET joined == {r \in peppro : r[1] \in DOMAIN pep /\ r[2] \in DOMAIN pro /\ pro[r[2]].decoy = decoy}
      accs == {pro[r[2]].protein_accession : r \in joined}
  IN {<<a, Cardinality({pep[r[1]].modified_sequence :
                          r \in {q \in joined : pro[q[2]].protein_accession = a}})>> : a \in accs}

\* SELECT COUNT(id) FROM protein WHERE decoy = ?
CountProteinRows(pro, decoy) == <<<<Cardinality({i \in DOMAIN pro : pro[i].decoy = decoy})>>>>

\* ------------------------------------------------------------------ Peptide
\* SELECT DISTINCT(modified_sequence) FROM peptide WHERE decoy = ? (a set of rows).
UniquePeptideRows(pep, decoy) ==
  {<<pep[i].modified_sequence>> : i \in {j \in DOMAIN pep : pep[j].decoy = decoy}}

\* The grouping without the filter on pep.decoy.
PromiscuityAllPeptides(pep, peppro, pro) ==
  LET joined == {r \in peppro : r[1] \in DOMAIN pep /\ r[2] \in DOMAIN pro}
      ids == Ascending({r[1] : r \in joined})
  IN [k \in DOMAIN ids |->
        <<Cardinality({pro[r[2]].protein_accession : r \in {q \in joined : q[1] = ids[k]}})>>]

\* SELECT COUNT(DISTINCT(protein_accession)) FROM peptide JOIN peptide_protein_mapping
\* JOIN protein WHERE pep.decoy = 0 GROUP BY pep.id
PromiscuityRows(pep, peppro, pro) ==
  LET joined == {r \in peppro : r[1] \in DOMAIN pep /\ r[2] \in DOMAIN pro /\ pep[r[1]].decoy = 0}
      ids == Ascending({r[1] : r \in joined})
  IN [k \in DOMAIN ids |->
        <<Cardinality({pro[r[2]].protein_accession : r \in {q \in joined : q[1] = ids[k]}})>>]

IsOne(row) == row[1] = 1

\* SELECT * FROM (the grouping above) WHERE num_pro_with_pep = 1
ProteotypicRows(pep, peppro, pro) == SelectSeq(PromiscuityRows(pep, peppro, pro), IsOne)

\* ------------------------------------------------------------------ initial states
NoResult == Outcome("none", <<>>, "ok", <<>>)

\* A database file: the given choices of decoy flags, protein accessions and
\* mapping rows; nothing has been called on it yet.
Populated(preDecoys, pepDecoys, proDecoys, accessions, prepeps, peppros) ==
  /\ \E d \in preDecoys : precursor = [i \in PrecursorIds |-> [decoy |-> d[i]]]
  /\ \E d \in pepDecoys :
       peptide = [i \in PeptideIds |-> [modified_sequence |-> SequenceOf(i), decoy |-> d[i]]]
  /\ \E a \in accessions, d \in proDecoys :
       protein = [i \in ProteinIds |-> [protein_accession |-> a[i], decoy |-> d[i]]]
  /\ precursor_peptide_mapping \in prepeps
  /\ peptide_protein_mapping \in peppros
  /\ protein_obj = FALSE /\ proteins = <<>> /\ built_from = <<>>
  /\ result = NoResult
  /\ last_patch = [called |-> FALSE, again |-> FALSE, changed |-> FALSE,
                   peptide |-> peptide, protein |-> protein]

\* Row i of the left table linked to row i of the right one.
Chain(L, R) == {m \in L \X R : m[1] = m[2]}

WellFormed == [i \in ProteinIds |-> AccessionOf(i)]
LastBare == [i \in ProteinIds |-> IF i = NumProteins THEN AccBare ELSE AccessionOf(i)]

\* Before Database(db_file) is called: any decoy flags, precursor i -> peptide i ->
\* protein i linked, the last protein's accession with or without separators.
Init ==
  /\ conn = "none" /\ cur = "none" /\ scope = "new"
  /\ Populated([PrecursorIds -> DecoyFlags], [PeptideIds -> DecoyFlags],
               [ProteinIds -> DecoyFlags], {WellFormed, LastBare},
               {Chain(PrecursorIds, PeptideIds)}, {Chain(PeptideIds, ProteinIds)})

\* A connected accessor over any decoy flags and any mapping rows.
InitPatch ==
  /\ conn = "open" /\ cur = "cursor" /\ scope = "out"
  /\ Populated([PrecursorIds -> DecoyFlags], [PeptideIds -> DecoyFlags],
               [ProteinIds -> DecoyFlags], {WellFormed},
               SUBSET (PrecursorIds \X PeptideIds), SUBSET (PeptideIds \X ProteinIds))

\* A connected accessor over any peptide and protein flags, any accessions of the
\* pool and any peptide-protein rows.
InitStats ==
  /\ conn = "open" /\ cur = "cursor" /\ scope = "out"
  /\ Populated({[i \in PrecursorIds |-> 0]}, [PeptideIds -> DecoyFlags],
               [ProteinIds -> DecoyFlags], [ProteinIds -> AccessionPool],
               {{}}, SUBSET (PeptideIds \X ProteinIds))

\* ------------------------------------------------------------------ Database actions
\* Database(db_file): create_connection returns (conn, cur), or prints the
\* sqlite3.Error and returns (None, None).
Construct ==
  /\ scope = "new"
  /\ \E opens \in BOOLEAN :
       /\ conn' = IF opens THEN "open" ELSE "none"
       /\ cur' = IF opens THEN "cursor" ELSE "none"
       /\ result' = Outcome("Database", <<opens>>, "ok", <<>>)
  /\ scope' = "out"
  /\ UNCHANGED <<tables, protein_obj, proteins, last_patch, built_from>>

\* __enter__ returns self.
EnterScope ==
  /\ scope = "out"
  /\ scope' = "in"
  /\ result' = Outcome("__enter__", <<>>, "ok", <<>>)
  /\ UNCHANGED <<conn, cur, tables, protein_obj, proteins, last_patch, built_from>>

\* __exit__ calls self.conn.close(); closing a closed connection is allowed.
ExitScope ==
  /\ scope = "in"
  /\ scope' = "out"
  /\ IF conn = "none"
     THEN /\ result' = Outcome("__exit__", <<>>, "AttributeError", <<>>)
          /\ UNCHANGED conn
     ELSE /\ result' = Outcome("__exit__", <<>>, "ok", <<>>)
          /\ conn' = "closed"
  /\ UNCHANGED <<cur, tables, protein_obj, proteins, last_patch, built_from>>

\* A reading call that runs the two updates of patch_decoys before it returns.
ReadsThenPatches(op, args, rows) ==
  /\ scope # "new"
  /\ result' = IF ConnError # "ok" THEN Outcome(op, args, ConnError, <<>>)
               ELSE Outcome(op, args, "ok", rows)
  /\ LET new == Patch(precursor, precursor_peptide_mapping, peptide,
                      peptide_protein_mapping, protein)
     IN IF ConnError # "ok" THEN UNCHANGED <<peptide, protein>>
        ELSE peptide' = new[1] /\ protein' = new[2]
  /\ UNCHANGED <<conn, cur, scope, precursor, precursor_peptide_mapping,
                 peptide_protein_mapping, protein_obj, proteins, last_patch, built_from>>

\* A call that only reads: it raises what the connection raises, or returns rows.
Reads(op, args, rows) ==
  /\ scope # "new"
  /\ result' = IF ConnError # "ok" THEN Outcome(op, args, ConnError, <<>>)
               ELSE Outcome(op, args, "ok", rows)
  /\ UNCHANGED <<conn, cur, scope, tables, protein_obj, proteins, last_patch, built_from>>

\* execute_query with a SELECT and no parameters.
ExecuteQuery == Reads("execute_query", <<"SELECT id FROM protein">>,
                      [k \in DOMAIN Ascending(DOMAIN protein) |-> <<Ascending(DOMAIN protein)[k]>>])

PatchDecoys ==
  /\ scope # "new"
  /\ IF ConnError # "ok"
     THEN /\ result' = Outcome("patch_decoys", <<>>, ConnError, <<>>)
          /\ UNCHANGED <<peptide, protein, last_patch>>
     ELSE LET new == Patch(precursor, precursor_peptide_mapping, peptide,
                           peptide_protein_mapping, protein)
          IN /\ peptide' = new[1]
             /\ protein' = new[2]
             /\ result' = Outcome("patch_decoys", <<>>, "ok", <<>>)
             /\ last_patch' = [called |-> TRUE, again |-> last_patch.called,
                               changed |-> last_patch.changed \/ new # <<peptide, protein>>,
                               peptide |-> peptide, protein |-> protein]
  /\ UNCHANGED <<conn, cur, scope, precursor, precursor_peptide_mapping,
                 peptide_protein_mapping, protein_obj, proteins, built_from>>

\* ------------------------------------------------------------------ Protein actions
\* What query_proteins(decoy) does: the query, then split_protein_names.
QueryProteinsOutcome(op, decoy) ==
  LET rows == ProteinRows(protein, decoy)
  IN IF ConnError # "ok" THEN Outcome(op, <<decoy>>, ConnError, <<>>)
     ELSE IF SplitRaises(rows) THEN Outcome(op, <<decoy>>, "IndexError", <<>>)
     ELSE Outcome(op, <<decoy>>, "ok", SplitProteinNames(rows))

\* Protein(db): self.proteins = self.query_proteins(); no object when that raises.
ConstructProtein ==
  /\ scope # "new" /\ ~protein_obj
  /\ result' = QueryProteinsOutcome("Protein", 0)
  /\ protein_obj' = (result'.status = "ok")
  /\ proteins' = result'.value
  /\ built_from' = IF result'.status = "ok" THEN ProteinRows(protein, 0) ELSE <<>>
  /\ UNCHANGED <<conn, cur, scope, tables, last_patch>>

\* A method of the Protein object that leaves every field alone.
ProteinMethod(outcome) ==
  /\ protein_obj
  /\ result' = outcome
  /\ UNCHANGED <<conn, cur, scope, tables, protein_obj, proteins, last_patch, built_from>>

QueryProteins == \E decoy \in DecoyArgs : ProteinMethod(QueryProteinsOutcome("query_proteins", decoy))

UniqueProteins == ProteinMethod(Outcome("unique_proteins", <<>>, "ok", UniqueProteinsOf(proteins)))

\* Group sizes computed from a new query_proteins() instead of self.proteins.
ProteinsPerGroupFresh ==
  LET fresh == QueryProteinsOutcome("proteins_per_group", 0)
  IN ProteinMethod(IF fresh.status # "ok" THEN [fresh EXCEPT !.args = <<>>]
                   ELSE Outcome("proteins_per_group", <<>>, "ok", ProteinsPerGroupOf(fresh.value)))

ProteinsPerGroup ==
  ProteinMethod(Outcome("proteins_per_group", <<>>, "ok", ProteinsPerGroupOf(proteins)))

PeptidesPerProtein ==
  \E decoy \in DecoyArgs :
    /\ protein_obj
    /\ Reads("peptides_per_protein", <<decoy>>,
             PeptidesPerProteinRows(peptide, peptide_protein_mapping, protein, decoy))

\* count_target_proteins with the query bound on both paths.
CountTargetProteinsBound(decoy) ==
  IF ConnError # "ok" THEN Outcome("count_target_proteins", <<decoy>>, ConnError, <<>>)
  ELSE Outcome("count_target_proteins", <<decoy>>, "ok", CountProteinRows(protein, decoy))

\* With a falsy decoy neither query nor params is bound when the call's arguments
\* are evaluated.
CountTargetProteinsOutcome(decoy) ==
  IF decoy = 0 THEN Outcome("count_target_proteins", <<decoy>>, "UnboundLocalError", <<>>)
  ELSE IF ConnError # "ok" THEN Outcome("count_target_proteins", <<decoy>>, ConnError, <<>>)
  ELSE Outcome("count_target_proteins", <<decoy>>, "ok", CountProteinRows(protein, decoy))

CountTargetProteins == \E decoy \in DecoyArgs : ProteinMethod(CountTargetProteinsOutcome(decoy))

\* ------------------------------------------------------------------ Peptide actions
\* Peptide(db) only stores db: its methods are callable on any accessor.
UniquePeptides ==
  \E decoy \in DecoyArgs : Reads("unique_peptides", <<decoy>>, UniquePeptideRows(peptide, decoy))

GetProteotypicPeptides ==
  Reads("get_proteotypic_peptides", <<>>,
        ProteotypicRows(peptide, peptide_protein_mapping, protein))

PeptidePromiscuity ==
  Reads("peptide_promiscuity", <<>>, PromiscuityRows(peptide, peptide_protein_mapping, protein))

\* ------------------------------------------------------------------ specification
Next ==
  \/ Construct
  \/ EnterScope
  \/ ExitScope
  \/ ExecuteQuery
  \/ PatchDecoys
  \/ ConstructProtein
  \/ QueryProteins
  \/ UniqueProteins
  \/ ProteinsPerGroup
  \/ PeptidesPerProtein
  \/ CountTargetProteins
  \/ UniquePeptides
  \/ GetProteotypicPeptides
  \/ PeptidePromiscuity

Spec == Init /\ [][Next]_vars

\* patch_decoys alone, over every database of the bounds.
NextPatch == PatchDecoys
SpecPatch == InitPatch /\ [][NextPatch]_vars

\* The two peptide-protein groupings, over every accession assignment.
NextStats ==
  \/ PeptidePromiscuity
  \/ GetProteotypicPeptides
SpecStats == InitStats /\ [][NextStats]_vars

\* ------------------------------------------------------------------ properties
\* The identifiers of an accession: every piece after the first separator.
IdTokens(acc) == LET t == Split(acc, "/") IN {t[k] : k \in 2..Len(t)}

\* count/id_1/.../id_n with n >= 1.
HasAccessionForm(acc) == Len(Split(acc, "/")) >= 2

\* C1: for every row matching the decoy filter whose accession has the form
\* count/id_1/.../id_n, query_proteins (and the constructor's call of it) returns
\* the set of exactly id_1..id_n.
SplitYieldsAllIds ==
  (result.op \in {"Protein", "query_proteins"} /\ result.status = "ok") =>
    LET rows == ProteinRows(protein, result.args[1])
    IN /\ Len(result.value) = Len(rows)
       /\ \A k \in DOMAIN rows :
            HasAccessionForm(rows[k][1]) => result.value[k] = IdTokens(rows[k][1])

\* C4: proteins_per_group returns one integer per row the protein query returned,
\* in row order, the i-th being the number of distinct identifiers after the count
\* token of the i-th accession.
GroupSizesCountIds ==
  result.op = "proteins_per_group" =>
    /\ Len(result.value) = Len(built_from)
    /\ \A k \in DOMAIN built_from : result.value[k] = Cardinality(IdTokens(built_from[k][1]))

PatchCompletes == result'.op = "patch_decoys" /\ result'.status = "ok"

\* C2: a completed patch_decoys sets decoy = 1 on every peptide linked to a decoy
\* precursor and on every protein linked to a peptide that is a decoy afterwards,
\* keeps every other decoy flag, and changes nothing else.
PatchPostcondition ==
  [][PatchCompletes =>
       /\ DOMAIN peptide' = DOMAIN peptide /\ DOMAIN protein' = DOMAIN protein
       /\ \A p \in DOMAIN peptide :
            /\ peptide'[p].modified_sequence = peptide[p].modified_sequence
            /\ peptide'[p].decoy =
                 IF \E m \in precursor_peptide_mapping : m[2] = p /\ precursor[m[1]].decoy = 1
                 THEN 1 ELSE peptide[p].decoy
       /\ \A q \in DOMAIN protein :
            /\ protein'[q].protein_accession = protein[q].protein_accession
            /\ protein'[q].decoy =
                 IF \E m \in peptide_protein_mapping : m[2] = q /\ peptide'[m[1]].decoy = 1
                 THEN 1 ELSE protein[q].decoy
       /\ UNCHANGED <<precursor, precursor_peptide_mapping, peptide_protein_mapping>>
    ]_vars

\* A call flagged a peptide and, through it, a protein, and left a target protein.
PatchPropagated ==
  /\ result.op = "patch_decoys" /\ result.status = "ok"
  /\ \E m \in peptide_protein_mapping :
       /\ last_patch.peptide[m[1]].decoy = 0 /\ peptide[m[1]].decoy = 1
       /\ last_patch.protein[m[2]].decoy = 0 /\ protein[m[2]].decoy = 1
  /\ \E q \in DOMAIN protein : protein[q].decoy = 0

\* C3: the flags after a second patch_decoys are the flags after the first.
PatchIdempotent ==
  last_patch.again => (peptide = last_patch.peptide /\ protein = last_patch.protein)

\* patch_decoys ran twice and changed flags.
PatchedTwice == last_patch.again /\ last_patch.changed /\ result.op = "patch_decoys"

\* The grouped counts as the claim describes them: one per non-decoy peptide with a
\* mapped protein, the number of distinct accessions mapped to it.
MappedAccessions(p) ==
  {protein[m[2]].protein_accession : m \in {r \in peptide_protein_mapping : r[1] = p}}

GroupedCounts ==
  LET ids == Ascending({p \in DOMAIN peptide : peptide[p].decoy = 0 /\ MappedAccessions(p) # {}})
  IN [k \in DOMAIN ids |-> <<Cardinality(MappedAccessions(ids[k]))>>]

\* C5: peptide_promiscuity returns the grouped counts, and get_proteotypic_peptides
\* exactly those of them that equal 1.
ProteotypicIsPromiscuityOne ==
  /\ (result.op = "peptide_promiscuity" /\ result.status = "ok") => result.value = GroupedCounts
  /\ (result.op = "get_proteotypic_peptides" /\ result.status = "ok") =>
       /\ \A k \in DOMAIN result.value : result.value[k] = <<1>>
       /\ Len(result.value) = Cardinality({k \in DOMAIN GroupedCounts : GroupedCounts[k] = <<1>>})

\* A peptide of two accessions was counted and is not proteotypic.
PromiscuousPeptideFiltered ==
  /\ result.op = "get_proteotypic_peptides" /\ result.status = "ok"
  /\ Len(result.value) < Len(GroupedCounts)

OnlyPatchWrites ==
  [][/\ result'.op # "patch_decoys" => UNCHANGED tables
     /\ DOMAIN precursor' = DOMAIN precursor
     /\ DOMAIN peptide' = DOMAIN peptide
     /\ DOMAIN protein' = DOMAIN protein
     /\ UNCHANGED <<precursor_peptide_mapping, peptide_protein_mapping>>
    ]_vars

\* Statistics were read, also failing ones, around a patch that changed flags.
StatisticsAfterPatch ==
  /\ last_patch.changed
  /\ result.op \in {"peptide_promiscuity", "count_target_proteins", "query_proteins"}

\* C8: a failed open does not raise and leaves conn and cur None; from then on the
\* accessor stays that way, no Protein is constructed over it, and every call other
\* than entering or leaving the with-block raises AttributeError.
FailedOpenStaysUnusable ==
  [][/\ (result'.op = "Database" /\ ~result'.args[1]) =>
          (result'.status = "ok" /\ conn' = "none" /\ cur' = "none")
     /\ (scope # "new" /\ cur = "none") =>
          /\ conn' = "none" /\ cur' = "none" /\ ~protein_obj'
          /\ UNCHANGED tables
          /\ result'.op \notin {"__enter__", "__exit__"} => result'.status = "AttributeError"
    ]_vars

\* Constructing a Protein over the failed accessor raised.
ProteinOverFailedOpen ==
  /\ cur = "none" /\ conn = "none"
  /\ result.op = "Protein" /\ result.status = "AttributeError" /\ ~protein_obj

\* C9: whenever the with-block of an accessor ends, the connection is closed and
\* leaving the block does not fail.
ScopeExitCloses ==
  result.op = "__exit__" => (result.status = "ok" /\ conn = "closed")

\* C10: Protein.proteins is what the constructor split from the target rows it read,
\* whatever has been called since, and proteins_per_group and unique_proteins are
\* computed from it.
GroupsFixedAtConstruction ==
  protein_obj =>
    /\ proteins = SplitProteinNames(built_from)
    /\ result.op = "proteins_per_group" =>
         result.value = [k \in DOMAIN built_from |-> Cardinality(SplitProteinNames(built_from)[k])]
    /\ result.op = "unique_proteins" =>
         result.value = {TupleOf(g) : g \in Range(SplitProteinNames(built_from))}

\* After a patch, the cached groups hold more rows than a new target query returns.
StaleGroupsAfterPatch ==
  /\ protein_obj /\ last_patch.changed
  /\ result.op = "proteins_per_group"
  /\ Len(result.value) > Len(ProteinRows(protein, 0))
  /\ proteins # SplitProteinNames(ProteinRows(protein, 0))

====
